---------------------------- MODULE Spec2Model ----------------------------
(***************************************************************************)
(* spc2wav (src/spc2wav.c): rendering of an SPC stream into a WAV file     *)
(* with a linear fade-out and an optional trailing ID3v2.4 tag chunk.      *)
(*                                                                         *)
(* Three specifications share the variables below:                         *)
(*   Spec      main() from spc_new() (line 183) to its return;             *)
(*   SpecTag   the tag builder (id3_init and the three adds) as an API;    *)
(*   SpecFade  fade_frames driven as an API on arbitrary arguments.        *)
(*                                                                         *)
(* Number representation.  TLC's integers are 32 bits wide, the program's  *)
(* frame counters are uint64_t (totalFrames, fadeFrames) and unsigned int  *)
(* (the parameters of fade_frames).  Such a value v is held as the record  *)
(* [hi |-> v \div 2^16, lo |-> v % 2^16]; a 32-bit value has hi < 2^16.    *)
(***************************************************************************)
EXTENDS Integers, Sequences, FiniteSets, TLC

VARIABLES
    pc,           \* position in main(), or the API state of SpecTag/SpecFade
    exitStatus,   \* main's return value, -1 while it runs
    id6,          \* the metadata block id666_parse filled in
    args,         \* the options: [embedId3, totalSecs, fadeSecs]
    pcm,          \* the sample pair the decoder and the filter yield
    spc, filter,  \* the decoder and the filter object: "none", "live", "deleted"
    id3_buffer,   \* str_buffer: [x, a, len]; x holds the bytes written so far
    id3MaxIdx,    \* highest index of id3_buffer.x ever written (-1: none)
    id3Last,      \* the last tag builder call: what was asked and what it returned
    totalFrames,  \* uint64_t frames remaining
    fadeFrames,   \* uint64_t fade window
    jobFrames,    \* totalFrames as computed at lines 194-198 (never changed)
    buf,          \* the PCM chunk: sequence of <<left, right>> frames
    fadeCall,     \* the arguments of the last fade_frames call and its effect
    out,          \* the output file: the sequence of fwrite calls that delivered
    outOpen,      \* fopen succeeded and fclose was not called yet
    wrFailed,     \* number of fwrite calls that failed so far
    iters,        \* render loop iterations so far
    apiCalls      \* SpecTag, SpecFade: calls made so far

vars == << pc, exitStatus, id6, args, pcm, spc, filter, id3_buffer,
           id3MaxIdx, id3Last, totalFrames, fadeFrames, jobFrames, buf,
           fadeCall, out, outOpen, wrFailed, iters, apiCalls >>

-----------------------------------------------------------------------------
(* Program constants *)

ChunkFrames == 4096
Id3InitAlloc == 4096
Id3GrowStep == 512
StrnlenMax == 256
PreambleLen == 10

(* Bounds of the model *)

MaxAdds == 2          \* tag builder calls per run of SpecTag
MaxDataLen == 700     \* the long text of SpecTag
MaxGrowFail == 2      \* reallocs that may succeed before one fails
MaxFadeLen == 3       \* SpecFade: frames in the chunk buffer, frames remaining
MaxFadeWin == 3       \* SpecFade: fade window
MaxFadeCalls == 2     \* SpecFade: fade_frames calls per run
MaxFieldLen == 2      \* Spec: length of the game and dumper fields
MaxFrames == 3        \* Spec: frames of a short stream
MaxFade == 2          \* Spec: fade window of a short stream
MaxIters == 3         \* Spec: render loop iterations
MaxWriteFail == 1     \* Spec: fwrite calls that fail in one run

-----------------------------------------------------------------------------
(* Unsigned arithmetic on [hi, lo] records *)

W16 == 256 * 256

U(n) == [hi |-> n \div W16, lo |-> n % W16]

UZero == U(0)

\* (unsigned int)v of a uint64_t v
UTrunc32(v) == [hi |-> v.hi % W16, lo |-> v.lo]

ULt(a, b) == a.hi < b.hi \/ (a.hi = b.hi /\ a.lo < b.lo)

UGt(a, b) == ULt(b, a)

\* a - b in unsigned int arithmetic (mod 2^32), a and b 32-bit
USub32(a, b) ==
    LET borrow == IF a.lo < b.lo THEN 1 ELSE 0
    IN  [hi |-> (a.hi - b.hi - borrow + 2 * W16) % W16,
         lo |-> (a.lo - b.lo + W16) % W16]

\* a + b in unsigned int arithmetic (mod 2^32), a and b 32-bit
UAdd32(a, b) ==
    LET carry == (a.lo + b.lo) \div W16
    IN  [hi |-> (a.hi + b.hi + carry) % W16, lo |-> (a.lo + b.lo) % W16]

\* a - n for a uint64_t a >= n
USub64(a, n) ==
    LET b == U(n)
        borrow == IF a.lo < b.lo THEN 1 ELSE 0
    IN  [hi |-> a.hi - b.hi - borrow, lo |-> (a.lo - b.lo + W16) % W16]

\* the value as a plain integer; only for values below 2^31
UInt(a) == a.hi * W16 + a.lo

-----------------------------------------------------------------------------
(* Binary packing primitives *)

\* val & mask >> shift for a mask of 7 one bits at [shift, shift + 6]
Bits7(val, shift) == (val \div (2 ^ shift)) % 128

pack_uint32_syncsafe(val) ==
    << Bits7(val, 21), Bits7(val, 14), Bits7(val, 7), Bits7(val, 0) >>

\* the reader's side of the syncsafe format (ID3v2.4, section 6.2)
SyncsafeDecode(b) == ((b[1] * 128 + b[2]) * 128 + b[3]) * 128 + b[4]

\* pack_uint32le on a 32-bit [hi, lo]
pack_uint32le(n) ==
    << n.lo % 256, n.lo \div 256, n.hi % 256, n.hi \div 256 >>

pack_uint16le(n) == << n % 256, n \div 256 >>

\* the reader's side of pack_uint32le
Le32Decode(b) == [hi |-> b[4] * 256 + b[3], lo |-> b[2] * 256 + b[1]]

-----------------------------------------------------------------------------
(* The metadata tag builder: lines 452-580 *)

NoFail == 0 - 1

Max(a, b) == IF a > b THEN a ELSE b

\* x with the bytes at C index at .. at + Len(bytes) - 1 overwritten
Poke(x, at, bytes) ==
    SubSeq(x, 1, at) \o bytes \o SubSeq(x, at + Len(bytes) + 1, Len(x))

\* memcpy's source: the first n bytes of the memory at the pointer
MemRead(mem, n) == SubSeq(mem, 1, n)

\* id3_update_len storing the whole used length, preamble included
id3_update_len_total(s) ==
    [s EXCEPT !.x = Poke(s.x, 6, pack_uint32_syncsafe(s.len))]

id3_update_len(s) ==
    [s EXCEPT !.x = Poke(s.x, 6, pack_uint32_syncsafe(s.len - PreambleLen))]

\* s->x is malloc'ed storage: nothing of it is written before id3_init
id3_init(s) ==
    id3_update_len([s EXCEPT !.len = PreambleLen,
                             !.x = << 73, 68, 51, 4, 0, 0, 0, 0, 0, 0 >>])

\* the growth written with if instead of while: one step at most
GrowOnce(s, need, budget) ==
    IF s.len + need > s.a
    THEN IF budget = 0
         THEN [s |-> s, ok |-> FALSE]
         ELSE [s |-> [s EXCEPT !.a = s.a + Id3GrowStep], ok |-> TRUE]
    ELSE [s |-> s, ok |-> TRUE]

\* while(s->len + need > s->a) { realloc by 512 or return -1 }.  budget is the
\* number of realloc calls that succeed before one returns NULL (NoFail: all do).
RECURSIVE GrowLoop(_, _, _)
GrowLoop(s, need, budget) ==
    IF s.len + need > s.a
    THEN IF budget = 0
         THEN [s |-> s, ok |-> FALSE]
         ELSE GrowLoop([s EXCEPT !.a = s.a + Id3GrowStep], need,
                       IF budget = NoFail THEN NoFail ELSE budget - 1)
    ELSE [s |-> s, ok |-> TRUE]

\* the bytes a frame appends at s->x[s->len], and the last index it writes
AppendFrame(s, frameBytes) ==
    id3_update_len([s EXCEPT !.x = SubSeq(s.x, 1, s.len) \o frameBytes,
                             !.len = s.len + Len(frameBytes)])

TextPayloadLen(datalen) == 1 + datalen + 1

id3_add_text(s, frame, data, datalen, budget) ==
    LET g == GrowLoop(s, 10 + TextPayloadLen(datalen), budget)
    IN  IF ~g.ok
        THEN [s |-> g.s, ret |-> 0 - 1]
        ELSE [s |-> AppendFrame(g.s,
                      frame \o pack_uint32_syncsafe(TextPayloadLen(datalen))
                            \o << 0, 0, 3 >> \o MemRead(data, datalen) \o << 0 >>),
              ret |-> 0]

\* the comment payload counted without the short description's terminator
CommPayloadLenShort(datalen) == 1 + 3 + datalen + 1

CommPayloadLen(datalen) == 1 + 3 + datalen + 1 + 1

id3_add_comment(s, data, datalen, budget) ==
    LET g == GrowLoop(s, 10 + CommPayloadLen(datalen), budget)
    IN  IF ~g.ok
        THEN [s |-> g.s, ret |-> 0 - 1]
        ELSE [s |-> AppendFrame(g.s,
                      << 67, 79, 77, 77 >>
                            \o pack_uint32_syncsafe(CommPayloadLen(datalen))
                            \o << 0, 0, 3 >> \o << 101, 110, 103, 0 >>
                            \o MemRead(data, datalen) \o << 0 >>),
              ret |-> 0]

PrivPayloadLen(description, datalen) == 1 + Len(description) + 1 + datalen + 1

\* description is the string without its terminator (strlen(description) bytes)
id3_add_private(s, description, data, datalen, budget) ==
    LET g == GrowLoop(s, 10 + PrivPayloadLen(description, datalen), budget)
    IN  IF ~g.ok
        THEN [s |-> g.s, ret |-> 0 - 1]
        ELSE [s |-> AppendFrame(g.s,
                      << 84, 88, 88, 88 >>
                            \o pack_uint32_syncsafe(PrivPayloadLen(description, datalen))
                            \o << 0, 0, 3 >> \o description \o << 0 >>
                            \o MemRead(data, datalen) \o << 0 >>),
              ret |-> 0]

\* Frame identifiers and strings of the program, as bytes
TIT2 == << 84, 73, 84, 50 >>
TALB == << 84, 65, 76, 66 >>
TPE1 == << 84, 80, 69, 49 >>
TPUB == << 84, 80, 85, 66 >>
TDRC == << 84, 68, 82, 67 >>
SpcDumper == << 115, 112, 99, 95, 100, 117, 109, 112, 101, 114 >>

-----------------------------------------------------------------------------
(* Values the variables hold while the part they belong to is not running *)

NoId6 ==
    [song |-> << >>, game |-> << >>, dumper |-> << >>, comment |-> << >>,
     artist |-> << >>, publisher |-> << >>, year |-> 0 - 1, junk |-> 0,
     total_len |-> 0, fade |-> 0]

NoArgs == [embedId3 |-> FALSE, totalSecs |-> 0, fadeSecs |-> 0]

NoTagCall ==
    [op |-> "none", datalen |-> 0, desclen |-> 0, ret |-> 0,
     a |-> 0, len |-> 0, size |-> << >>]

NoFadeCall ==
    [framesRem |-> UZero, framesFade |-> UZero, frameCount |-> 0,
     before |-> << >>, divs |-> 0, divZero |-> FALSE]

\* id3_buffer after lines 206-211: storage allocated, nothing written
RawBuffer == [x |-> << >>, a |-> Id3InitAlloc, len |-> 0]

MainIdle ==
    /\ exitStatus = 0 - 1
    /\ id6 = NoId6
    /\ args = NoArgs
    /\ pcm = << 0, 0 >>
    /\ spc = "none"
    /\ filter = "none"
    /\ totalFrames = UZero
    /\ fadeFrames = UZero
    /\ jobFrames = UZero
    /\ out = << >>
    /\ outOpen = FALSE
    /\ wrFailed = 0
    /\ iters = 0

mainVars == << exitStatus, id6, args, pcm, spc, filter, totalFrames,
               fadeFrames, jobFrames, out, outOpen, wrFailed, iters >>

tagVars == << id3_buffer, id3MaxIdx, id3Last >>

fadeVars == << buf, fadeCall >>

-----------------------------------------------------------------------------
(* SpecTag: the tag builder as an API *)

\* a text of n bytes, none of them NUL
TextOf(n) == [i \in 1..n |-> 65 + (i % 26)]

\* what a call leaves in id3Last
TagCall(op, datalen, desclen, s, r) ==
    [op |-> op, datalen |-> datalen, desclen |-> desclen, ret |-> r.ret,
     a |-> s.a, len |-> s.len, size |-> SubSeq(s.x, 7, 10)]

\* the highest index a call wrote: the preamble's size field or the frame's end
Written(s, r) == IF r.ret = 0 THEN Max(id3MaxIdx, r.s.len - 1) ELSE id3MaxIdx

\* the data lengths tried on buffer s by an add whose frame takes n + fixed
\* bytes: short and long ones, the one that fills the capacity and one more
TagLens(s, fixed) ==
    {0, 5, MaxDataLen} \cup
    (IF s.a - s.len - fixed >= 0
     THEN {s.a - s.len - fixed, s.a - s.len - fixed + 1} ELSE {})

Budgets == (0..MaxGrowFail) \cup {NoFail}

TagInit ==
    /\ pc = "tag_raw"
    /\ MainIdle
    /\ id3_buffer = RawBuffer
    /\ id3MaxIdx = 0 - 1
    /\ id3Last = NoTagCall
    /\ buf = << >>
    /\ fadeCall = NoFadeCall
    /\ apiCalls = 0

TagId3Init ==
    /\ pc = "tag_raw"
    /\ id3_buffer' = id3_init(id3_buffer)
    /\ id3MaxIdx' = 9
    /\ id3Last' = [NoTagCall EXCEPT !.op = "init"]
    /\ pc' = "tag"
    /\ UNCHANGED << mainVars, fadeVars, apiCalls >>

TagAddText ==
    /\ pc = "tag"
    /\ apiCalls < MaxAdds
    /\ \E frame \in {TIT2, TDRC}, n \in TagLens(id3_buffer, 12), budget \in Budgets :
         \E r \in {id3_add_text(id3_buffer, frame, TextOf(n), n, budget)} :
             /\ id3_buffer' = r.s
             /\ id3MaxIdx' = Written(id3_buffer, r)
             /\ id3Last' = TagCall("text", n, 0, id3_buffer, r)
    /\ apiCalls' = apiCalls + 1
    /\ UNCHANGED << pc, mainVars, fadeVars >>

TagAddComment ==
    /\ pc = "tag"
    /\ apiCalls < MaxAdds
    /\ \E n \in TagLens(id3_buffer, 16), budget \in Budgets :
         \E r \in {id3_add_comment(id3_buffer, TextOf(n), n, budget)} :
             /\ id3_buffer' = r.s
             /\ id3MaxIdx' = Written(id3_buffer, r)
             /\ id3Last' = TagCall("comment", n, 0, id3_buffer, r)
    /\ apiCalls' = apiCalls + 1
    /\ UNCHANGED << pc, mainVars, fadeVars >>

TagAddPrivate ==
    /\ pc = "tag"
    /\ apiCalls < MaxAdds
    /\ \E desc \in {SpcDumper, << >>}, n \in TagLens(id3_buffer, 13), budget \in Budgets :
         \E r \in {id3_add_private(id3_buffer, desc, TextOf(n), n, budget)} :
             /\ id3_buffer' = r.s
             /\ id3MaxIdx' = Written(id3_buffer, r)
             /\ id3Last' = TagCall("private", n, Len(desc), id3_buffer, r)
    /\ apiCalls' = apiCalls + 1
    /\ UNCHANGED << pc, mainVars, fadeVars >>

TagNext == TagId3Init \/ TagAddText \/ TagAddComment \/ TagAddPrivate

SpecTag == TagInit /\ [][TagNext]_vars

-----------------------------------------------------------------------------
(* Properties of the tag builder, checked under SpecTag *)

SizeField(x) == SubSeq(x, 7, 10)

IsAdd(op) == op \in {"text", "comment", "private"}

\* the frame header at C offset off of x
FrameSize(x, off) == SyncsafeDecode(SubSeq(x, off + 5, off + 8))

\* walking the frames from off: skip 10 + decoded size until the end is hit
RECURSIVE WalkEndsAt(_, _, _)
WalkEndsAt(x, off, end) ==
    IF off = end THEN TRUE
    ELSE IF off + 10 > end THEN FALSE
    ELSE WalkEndsAt(x, off + 10 + FrameSize(x, off), end)

\* C1: after id3_init the used length is 10 and the preamble's size field
\* decodes to 0; after every add, in any sequence and mix, the field decodes to
\* (used length - 10) and each of its four bytes has its top bit clear.
C1_PreambleSize ==
    pc = "tag" =>
        /\ id3Last.op = "init" =>
              id3_buffer.len = 10 /\ SyncsafeDecode(SizeField(id3_buffer.x)) = 0
        /\ SyncsafeDecode(SizeField(id3_buffer.x)) = id3_buffer.len - 10
        /\ \A k \in 7..10 : id3_buffer.x[k] < 128

\* a successful add has left more than 127 bytes of frames behind the preamble
C1_Witness ==
    /\ pc = "tag" /\ IsAdd(id3Last.op) /\ id3Last.ret = 0
    /\ id3Last.len > 10
    /\ id3_buffer.len - 10 > 128

\* the payload length the specification documents for each kind of frame
DocPayloadLen(call) ==
    CASE call.op = "text" -> call.datalen + 2
      [] call.op = "comment" -> call.datalen + 6
      [] call.op = "private" -> 1 + call.desclen + 1 + call.datalen + 1

\* C2: a successful add appends exactly 10 + P bytes, the frame's own size
\* field decodes to P (P by the documented formula of its kind), its two flag
\* bytes are zero, and the frame walk from offset 10 ends at the used length;
\* one text frame of 5 bytes on a fresh tag gives length 27 and size 17.
C2_FrameLengths ==
    (pc = "tag" /\ IsAdd(id3Last.op) /\ id3Last.ret = 0) =>
        LET P == DocPayloadLen(id3Last)
        IN  /\ id3_buffer.len = id3Last.len + 10 + P
            /\ Len(id3_buffer.x) = id3_buffer.len
            /\ FrameSize(id3_buffer.x, id3Last.len) = P
            /\ SubSeq(id3_buffer.x, id3Last.len + 9, id3Last.len + 10) = << 0, 0 >>
            /\ WalkEndsAt(id3_buffer.x, 10, id3_buffer.len)
            /\ (id3Last.op = "text" /\ id3Last.datalen = 5 /\ id3Last.len = 10) =>
                  /\ id3_buffer.len = 27
                  /\ SyncsafeDecode(SizeField(id3_buffer.x)) = 17

\* a "spc_dumper" private frame appended behind an earlier frame
C2_Witness ==
    /\ pc = "tag" /\ id3Last.op = "private" /\ id3Last.ret = 0
    /\ id3Last.desclen = 10 /\ id3Last.datalen = 5
    /\ id3Last.len > 10

\* C10: the used length never exceeds the capacity and no byte is written at
\* an index >= capacity; the capacity is 4096 plus a multiple of 512, never
\* shrinks, and an add that grew it grew it by the fewest steps that fit the
\* frame; a failed add returns -1 with used length and size field unchanged.
C10_Bounds ==
    pc = "tag" =>
        /\ id3_buffer.len <= id3_buffer.a
        /\ id3MaxIdx < id3_buffer.a
        /\ id3_buffer.a >= 4096 /\ (id3_buffer.a - 4096) % 512 = 0
        /\ IsAdd(id3Last.op) =>
              /\ id3_buffer.a >= id3Last.a
              /\ id3Last.ret \in {0, 0 - 1}
              /\ (id3Last.ret = 0 /\ id3_buffer.a > id3Last.a) =>
                    id3_buffer.a - 512 < id3_buffer.len
              /\ (id3Last.ret = 0 /\ id3_buffer.a = id3Last.a) =>
                    id3_buffer.len <= id3Last.a
              /\ id3Last.ret = 0 - 1 =>
                    /\ id3_buffer.len = id3Last.len
                    /\ SizeField(id3_buffer.x) = id3Last.size

\* an add that had to grow the buffer by two steps or more
C10_Witness ==
    /\ pc = "tag" /\ IsAdd(id3Last.op) /\ id3Last.ret = 0
    /\ id3_buffer.a >= id3Last.a + 2 * 512

-----------------------------------------------------------------------------
(* The fade envelope: fade_frames, lines 383-405 *)

Abs(n) == IF n < 0 THEN 0 - n ELSE n

RECURSIVE Gcd(_, _)
Gcd(a, b) == IF b = 0 THEN a ELSE Gcd(b, a % b)

RECURSIVE IsPow2(_)
IsPow2(n) == n = 1 \/ (n > 1 /\ n % 2 = 0 /\ IsPow2(n \div 2))

\* floor(log2 n) for n >= 1
RECURSIVE Log2(_)
Log2(n) == IF n < 2 THEN 0 ELSE 1 + Log2(n \div 2)

\* (a * 2^k) mod b
RECURSIVE MulPow2Mod(_, _, _)
MulPow2Mod(a, k, b) == IF k = 0 THEN a % b ELSE MulPow2Mod((2 * a) % b, k - 1, b)

\* the e >= from with a * 2^e >= b:  a/b lies in [2^-e, 2^(1-e))
RECURSIVE BinExp(_, _, _)
BinExp(a, b, from) == IF a * (2 ^ from) >= b THEN from ELSE BinExp(a, b, from + 1)

\* Whether the double (double)m * ((double)a / (double)b) is below the integer
\* n = m * a / b it approximates, for 0 < a < b coprime, b no power of two and
\* b dividing m.  The quotient a/b = M' * 2^-(52+e) is rounded to the integer
\* mantissa M (IEEE 754 binary64, round to nearest even): the part cut off is
\* rho / b.  When it is rounded down the product falls short of n by
\* m * rho / b * 2^-(52+e), and is then rounded to the double below n exactly
\* when that exceeds half the spacing of the doubles below n.
ProductBelow(m, a, b, n) ==
    LET e == BinExp(a, b, 1)
        rho == MulPow2Mod(a, 52 + e, b)
        j == Log2(n)
        kk == IF IsPow2(n) THEN j + e - 2 ELSE j + e - 1
        L == m * rho
    IN  /\ 2 * rho < b
        /\ IF kk < 0 THEN 2 * L > b
           ELSE \/ L \div b > 2 ^ kk
                \/ (L \div b = 2 ^ kk /\ L % b > 0)

\* data[k] *= fade with fade = (double)num / (double)den: the int16_t sample is
\* converted to double, multiplied, and converted back (truncation toward
\* zero).  For 0 <= num <= den < 2^15.
ScaleSample(sample, num, den) ==
    IF num = den THEN sample
    ELSE IF num = 0 \/ sample = 0 THEN 0
    ELSE
    LET g == Gcd(num, den)
        a == num \div g
        b == den \div g
        m == Abs(sample)
        n == (m * a) \div b
        mag == IF IsPow2(b) \/ (m * a) % b # 0 THEN n
               ELSE IF ProductBelow(m, a, b, n) THEN n - 1 ELSE n
    IN  IF sample < 0 THEN 0 - mag ELSE mag

ScaleFrame(frame, num, den) ==
    << ScaleSample(frame[1], num, den), ScaleSample(frame[2], num, den) >>

\* fade_frames with line 389 compared as signed integers: a negative
\* difference is no longer above the window, and the loop is entered
fade_frames_signed(data, framesRem, framesFade, frameCount) ==
    IF ~ULt(framesRem, U(frameCount))
       /\ UGt(USub32(framesRem, U(frameCount)), framesFade)
    THEN [data |-> data, divs |-> 0, divZero |-> FALSE]
    ELSE
    LET i0 == IF UGt(framesRem, framesFade) THEN USub32(framesRem, framesFade)
              ELSE UZero
        f == IF UGt(framesRem, framesFade) THEN UAdd32(framesFade, i0)
             ELSE framesRem
        from == IF ULt(i0, U(frameCount)) THEN UInt(i0) ELSE frameCount
        den == UInt(framesFade)
    IN  [data |-> [k \in 1..Len(data) |->
                     IF k - 1 >= from /\ k - 1 < frameCount /\ den # 0
                     THEN ScaleFrame(data[k], UInt(USub32(f, U(k - 1))), den)
                     ELSE data[k]],
         divs |-> frameCount - from,
         divZero |-> frameCount > from /\ den = 0]

\* fade_frames(data, framesRem, framesFade, frameCount).  framesRem and
\* framesFade are unsigned int, as [hi, lo]; frameCount is below 2^16.
\* Returns the data, the number of times line 398 divided, and whether it
\* divided by zero (the samples are then left as they were: the conversion of
\* an infinity or a NaN to int16_t has no defined result).
fade_frames(data, framesRem, framesFade, frameCount) ==
    IF UGt(USub32(framesRem, U(frameCount)), framesFade)
    THEN [data |-> data, divs |-> 0, divZero |-> FALSE]
    ELSE
    LET i0 == IF UGt(framesRem, framesFade) THEN USub32(framesRem, framesFade)
              ELSE UZero
        f == IF UGt(framesRem, framesFade) THEN UAdd32(framesFade, i0)
             ELSE framesRem
        from == IF ULt(i0, U(frameCount)) THEN UInt(i0) ELSE frameCount
        den == UInt(framesFade)
    IN  [data |-> [k \in 1..Len(data) |->
                     IF k - 1 >= from /\ k - 1 < frameCount /\ den # 0
                     THEN ScaleFrame(data[k], UInt(USub32(f, U(k - 1))), den)
                     ELSE data[k]],
         divs |-> frameCount - from,
         divZero |-> frameCount > from /\ den = 0]

-----------------------------------------------------------------------------
(* SpecFade: fade_frames as an API *)

\* decoded sample pairs: the specification's (100, -100), the extremes of
\* int16_t, and values whose scaled product is a whole number
SamplePairs == { << 100, 0 - 100 >>, << 32767, 0 - 32768 >>, << 49, 0 - 3 >> }

PcmConst(n, pair) == [k \in 1..n |-> pair]

UIntMax == [hi |-> W16 - 1, lo |-> W16 - 1]

FadeRems == { U(n) : n \in 0..(MaxFadeLen + 1) } \cup { UIntMax }

FadeWins == { U(n) : n \in 0..MaxFadeWin }

\* what the chunk holds after a call: the samples a division by zero was
\* applied to are unspecified, any value of SamplePairs may show up
AfterFade(r, data) ==
    IF r.divZero THEN { r.data } \cup { PcmConst(Len(data), p) : p \in SamplePairs }
    ELSE { r.data }

FadeInit ==
    /\ pc = "fade"
    /\ MainIdle
    /\ id3_buffer = RawBuffer
    /\ id3MaxIdx = 0 - 1
    /\ id3Last = NoTagCall
    /\ buf \in { PcmConst(n, p) : n \in 0..MaxFadeLen, p \in SamplePairs }
    /\ fadeCall = NoFadeCall
    /\ apiCalls = 0

FadeApply ==
    /\ pc = "fade"
    /\ apiCalls < MaxFadeCalls
    /\ \E rem \in FadeRems, win \in FadeWins, fc \in 0..Len(buf) :
         \E r \in { fade_frames(buf, rem, win, fc) } :
            /\ buf' \in AfterFade(r, buf)
            /\ fadeCall' = [framesRem |-> rem, framesFade |-> win,
                            frameCount |-> fc, before |-> buf,
                            divs |-> r.divs, divZero |-> r.divZero]
    /\ apiCalls' = apiCalls + 1
    /\ UNCHANGED << pc, mainVars, tagVars >>

FadeNext == FadeApply

SpecFade == FadeInit /\ [][FadeNext]_vars

\* C7: with a fade window of 0, whatever the frames remaining and the frame
\* count (the last chunk, where they are equal, and a frame count above the
\* frames remaining included), fade_frames leaves every sample as it was and
\* never evaluates the division by the window length.
C7_ZeroWindowNoOp ==
    (pc = "fade" /\ apiCalls > 0 /\ fadeCall.framesFade = UZero) =>
        /\ buf = fadeCall.before
        /\ fadeCall.divs = 0
        /\ ~fadeCall.divZero

\* a zero-window call on the last chunk, and one asking for more than remain
C7_Witness ==
    /\ pc = "fade" /\ apiCalls = 2 /\ fadeCall.framesFade = UZero
    /\ fadeCall.frameCount = 3 /\ fadeCall.framesRem = U(2)
    /\ buf = PcmConst(3, << 100, 0 - 100 >>)

-----------------------------------------------------------------------------
(* Spec: main(), lines 183-283 *)

Min(a, b) == IF a < b THEN a ELSE b

\* strnlen(field, 256) of a field holding the string str
Strnlen(str) == Min(Len(str), StrnlenMax)

\* the n bytes memcpy reads from a field holding str: the string, and past its
\* end the terminator and whatever the metadata block holds behind it
FieldMem(str, n, junk) ==
    IF n <= Len(str) THEN SubSeq(str, 1, n)
    ELSE str \o << 0 >> \o [k \in 1..(n - Len(str) - 1) |-> junk]

\* v * k for a uint64_t v and a small k
UMul64(v, k) == [hi |-> v.hi * k + (v.lo * k) \div W16, lo |-> (v.lo * k) % W16]

\* the decimal digits of n >= 0, as characters
RECURSIVE Digits(_)
Digits(n) ==
    IF n < 10 THEN << 48 + n >> ELSE Digits(n \div 10) \o << 48 + (n % 10) >>

\* snprintf(yearTmp, 5, "%d", year): at most four characters are kept
YearText(year) ==
    LET full == IF year < 0 THEN << 45 >> \o Digits(0 - year) ELSE Digits(year)
    IN  SubSeq(full, 1, Min(Len(full), 4))

Hello == << 72, 101, 108, 108, 111 >>

\* the metadata blocks tried: every pair of game and dumper lengths, with and
\* without a title, with and without the remaining fields
Id6Cases ==
    { [song |-> sg, game |-> TextOf(g), dumper |-> TextOf(d),
       comment |-> rest.c, artist |-> rest.a, publisher |-> rest.p,
       year |-> rest.y, junk |-> j, total_len |-> 5, fade |-> 2] :
        sg \in { << >>, Hello }, g \in 0..MaxFieldLen, d \in 0..MaxFieldLen,
        j \in { 0, 255 },
        rest \in { [c |-> << >>, a |-> << >>, p |-> << >>, y |-> 0 - 1],
                   [c |-> TextOf(4), a |-> TextOf(1), p |-> TextOf(3), y |-> 1995] } }

\* the streams tried: [total_len, fade] of the metadata block (in half frames)
\* and the --length and --fade options (in seconds)
ShortJobs ==
    { [total_len |-> 2 * n + 1, fade |-> 2 * f, totalSecs |-> 0, fadeSecs |-> 0] :
        n \in (0..MaxFrames) \cup { 10 }, f \in (0..MaxFade) \cup { 5 } }
    \cup { [total_len |-> 2 * MaxFrames, fade |-> 2, totalSecs |-> 0, fadeSecs |-> 1] }

LongJobs ==
    { [total_len |-> 2 * n, fade |-> 2 * f, totalSecs |-> 0, fadeSecs |-> 0] :
        n \in { 1000, ChunkFrames, ChunkFrames + 1, 2 * ChunkFrames + 5 },
        f \in { 0, 5 } }
    \cup { [total_len |-> 7, fade |-> 10, totalSecs |-> 134218, fadeSecs |-> 0] }

PlainId6 == [NoId6 EXCEPT !.total_len = 5, !.fade = 2]

JobId6(meta, job) == [meta EXCEPT !.total_len = job.total_len, !.fade = job.fade]

JobArgs(embed, job) ==
    [embedId3 |-> embed, totalSecs |-> job.totalSecs, fadeSecs |-> job.fadeSecs]

\* the state at line 183: the options are parsed, the file is read and
\* id666_parse has filled id6
MainInit ==
    /\ pc = "spc_new"
    /\ exitStatus = 0 - 1
    /\ \/ /\ id6 \in Id6Cases
          /\ args \in { JobArgs(e, [totalSecs |-> 0, fadeSecs |-> 0]) : e \in BOOLEAN }
          /\ pcm = << 100, 0 - 100 >>
       \/ /\ \E job \in ShortJobs, e \in BOOLEAN :
               /\ id6 \in { JobId6(PlainId6, job), JobId6([PlainId6 EXCEPT !.song = Hello], job) }
               /\ args = JobArgs(e, job)
          /\ pcm \in SamplePairs
       \/ /\ \E job \in LongJobs :
               /\ id6 \in { JobId6(PlainId6, job), JobId6([PlainId6 EXCEPT !.song = Hello], job) }
               /\ args = JobArgs(TRUE, job)
          /\ pcm = << 100, 0 - 100 >>
    /\ spc = "none"
    /\ filter = "none"
    /\ id3_buffer = [x |-> << >>, a |-> 0, len |-> 0]
    /\ id3MaxIdx = 0 - 1
    /\ id3Last = NoTagCall
    /\ totalFrames = UZero
    /\ fadeFrames = UZero
    /\ jobFrames = UZero
    /\ buf = << >>
    /\ fadeCall = NoFadeCall
    /\ out = << >>
    /\ outOpen = FALSE
    /\ wrFailed = 0
    /\ iters = 0
    /\ apiCalls = 0

\* return e: main returns with what it holds at that point
Return(e) ==
    /\ pc' = "done"
    /\ exitStatus' = e

\* lines 183-184
Create ==
    /\ pc = "spc_new"
    /\ spc' = "live"
    /\ filter' = "live"
    /\ pc' = "load"
    /\ UNCHANGED << exitStatus, id6, args, pcm, tagVars, totalFrames, fadeFrames,
                    jobFrames, fadeVars, out, outOpen, wrFailed, iters, apiCalls >>

\* lines 186-188: spc_load_spc reports an error
LoadFails ==
    /\ pc = "load"
    /\ Return(1)
    /\ UNCHANGED << id6, args, pcm, spc, filter, tagVars, totalFrames, fadeFrames,
                    jobFrames, fadeVars, out, outOpen, wrFailed, iters, apiCalls >>

\* lines 186-204: the file loads; the chunk buffers are allocated and the
\* frame counts computed
LoadAndCount ==
    /\ pc = "load"
    /\ totalFrames' = IF args.totalSecs = 0 THEN U(id6.total_len \div 2)
                      ELSE UMul64(U(args.totalSecs), 32000)
    /\ fadeFrames' = IF args.fadeSecs = 0 THEN U(id6.fade \div 2)
                     ELSE UMul64(U(args.fadeSecs), 32000)
    /\ jobFrames' = totalFrames'
    /\ pc' = "tag_alloc"
    /\ UNCHANGED << exitStatus, id6, args, pcm, spc, filter, tagVars, fadeVars,
                    out, outOpen, wrFailed, iters, apiCalls >>

\* lines 206-209: malloc returns NULL
TagAllocFails ==
    /\ pc = "tag_alloc"
    /\ Return(1)
    /\ UNCHANGED << id6, args, pcm, spc, filter, tagVars, totalFrames, fadeFrames,
                    jobFrames, fadeVars, out, outOpen, wrFailed, iters, apiCalls >>

\* lines 206-215: the buffer is allocated and id3_init writes the preamble
TagAlloc ==
    /\ pc = "tag_alloc"
    /\ id3_buffer' = id3_init(RawBuffer)
    /\ id3MaxIdx' = 9
    /\ id3Last' = [NoTagCall EXCEPT !.op = "init"]
    /\ pc' = IF args.embedId3 THEN "song" ELSE "fopen"
    /\ UNCHANGED << exitStatus, id6, args, pcm, spc, filter, totalFrames, fadeFrames,
                    jobFrames, fadeVars, out, outOpen, wrFailed, iters, apiCalls >>

\* one "if(strnlen(field,256)) { if(add == -1) return 1; }" of lines 216-237:
\* r is the add's result when the field is present
TagStep(here, present, r, call, next) ==
    /\ pc = here
    /\ IF present
       THEN /\ id3_buffer' = r.s
            /\ id3MaxIdx' = Written(id3_buffer, r)
            /\ id3Last' = call
            /\ IF r.ret = 0 - 1 THEN Return(1)
               ELSE pc' = next /\ UNCHANGED exitStatus
       ELSE /\ pc' = next
            /\ UNCHANGED << exitStatus, tagVars >>
    /\ UNCHANGED << id6, args, pcm, spc, filter, totalFrames, fadeFrames,
                    jobFrames, fadeVars, out, outOpen, wrFailed, iters, apiCalls >>

\* lines 216-218
AddSong ==
    \E budget \in Budgets :
      \E r \in { id3_add_text(id3_buffer, TIT2, FieldMem(id6.song, Strnlen(id6.song), id6.junk),
                              Strnlen(id6.song), budget) } :
         TagStep("song", Strnlen(id6.song) # 0, r,
                 TagCall("text", Strnlen(id6.song), 0, id3_buffer, r), "game")

\* lines 219-221
AddGame ==
    \E budget \in Budgets :
      \E r \in { id3_add_text(id3_buffer, TALB, FieldMem(id6.game, Strnlen(id6.game), id6.junk),
                              Strnlen(id6.game), budget) } :
         TagStep("game", Strnlen(id6.game) # 0, r,
                 TagCall("text", Strnlen(id6.game), 0, id3_buffer, r), "dumper")

\* lines 222-224: the data is id6.dumper, the length is strnlen(id6.game,256)
AddDumper ==
    \E budget \in Budgets :
      \E r \in { id3_add_private(id3_buffer, SpcDumper,
                                 FieldMem(id6.dumper, Strnlen(id6.game), id6.junk),
                                 Strnlen(id6.game), budget) } :
         TagStep("dumper", Strnlen(id6.dumper) # 0, r,
                 TagCall("private", Strnlen(id6.game), Len(SpcDumper), id3_buffer, r),
                 "comment")

\* lines 225-227
AddComment ==
    \E budget \in Budgets :
      \E r \in { id3_add_comment(id3_buffer,
                                 FieldMem(id6.comment, Strnlen(id6.comment), id6.junk),
                                 Strnlen(id6.comment), budget) } :
         TagStep("comment", Strnlen(id6.comment) # 0, r,
                 TagCall("comment", Strnlen(id6.comment), 0, id3_buffer, r), "artist")

\* lines 228-230
AddArtist ==
    \E budget \in Budgets :
      \E r \in { id3_add_text(id3_buffer, TPE1,
                              FieldMem(id6.artist, Strnlen(id6.artist), id6.junk),
                              Strnlen(id6.artist), budget) } :
         TagStep("artist", Strnlen(id6.artist) # 0, r,
                 TagCall("text", Strnlen(id6.artist), 0, id3_buffer, r), "publisher")

\* lines 231-233
AddPublisher ==
    \E budget \in Budgets :
      \E r \in { id3_add_text(id3_buffer, TPUB,
                              FieldMem(id6.publisher, Strnlen(id6.publisher), id6.junk),
                              Strnlen(id6.publisher), budget) } :
         TagStep("publisher", Strnlen(id6.publisher) # 0, r,
                 TagCall("text", Strnlen(id6.publisher), 0, id3_buffer, r), "year")

\* lines 234-237
AddYear ==
    \E budget \in Budgets :
      \E r \in { id3_add_text(id3_buffer, TDRC, YearText(id6.year),
                              Len(YearText(id6.year)), budget) } :
         TagStep("year", id6.year # (0 - 1), r,
                 TagCall("text", Len(YearText(id6.year)), 0, id3_buffer, r), "fopen")

\* lines 240-244: fopen returns NULL
FopenFails ==
    /\ pc = "fopen"
    /\ Return(1)
    /\ UNCHANGED << id6, args, pcm, spc, filter, tagVars, totalFrames, fadeFrames,
                    jobFrames, fadeVars, out, outOpen, wrFailed, iters, apiCalls >>

\* lines 240-261: the output file is open; echo and filter are reset
Fopen ==
    /\ pc = "fopen"
    /\ outOpen' = TRUE
    /\ pc' = "header"
    /\ UNCHANGED << exitStatus, id6, args, pcm, spc, filter, tagVars, totalFrames,
                    fadeFrames, jobFrames, fadeVars, out, wrFailed, iters, apiCalls >>

-----------------------------------------------------------------------------
(* The WAV container writer and the render loop *)

\* one fwrite call that delivered n bytes; the PCM bytes themselves are not kept
Seg(what, bytes) == [what |-> what, n |-> Len(bytes), bytes |-> bytes]

PcmSeg(n) == [what |-> "pcm", n |-> n, bytes |-> << >>]

\* the trailing chunk counted without its 8-byte "ID3 " header
Id3ChunkSizeBare(len) == IF len > 10 THEN len ELSE 0

\* write_wav_header, line 345: the size of the trailing chunk
Id3ChunkSize(len) == IF len > 10 THEN len + 8 ELSE 0

\* the 13 fwrite calls of write_wav_header, in order
HeaderCalls(frames, id3) ==
    LET dataSize == UTrunc32(UMul64(frames, 2 * 2))
        riffSize == UAdd32(USub32(UAdd32(dataSize, U(44)), U(8)), U(Id3ChunkSize(id3.len)))
    IN  << << 82, 73, 70, 70 >>,
           pack_uint32le(riffSize),
           << 87, 65, 86, 69 >>,
           << 102, 109, 116, 32 >>,
           pack_uint32le(U(16)),
           pack_uint16le(1),
           pack_uint16le(2),
           pack_uint32le(U(32000)),
           pack_uint32le(U(32000 * 2 * 2)),
           pack_uint16le(2 * 2),
           pack_uint16le(2 * 8),
           << 100, 97, 116, 97 >>,
           pack_uint32le(dataSize) >>

\* the fwrite calls of write_wav_footer, in order; none when only the preamble
\* is in the buffer
FooterCalls(id3) ==
    IF id3.len = 10 THEN << >>
    ELSE << << 73, 68, 51, 32 >>,
            pack_uint32le(U(id3.len)),
            SubSeq(id3.x, 1, id3.len) >>

\* The calls of a writer that returns at its first failing fwrite: the
\* segments of the file after the first good calls have delivered (a failing
\* call is taken to deliver nothing)
Delivered(what, calls, good) == [k \in 1..good |-> Seg(what, calls[k])]

\* a writer's run: all calls good, or the calls before a failing one
WriterRuns(what, calls) ==
    { [segs |-> Delivered(what, calls, Len(calls)), failed |-> 0] }
    \cup { [segs |-> Delivered(what, calls, good), failed |-> 1] :
             good \in 0..(Len(calls) - 1) }

\* line 263: write_wav_header(out, totalFrames, &id3_buffer); its result is
\* not looked at
WriteHeader ==
    /\ pc = "header"
    /\ \E run \in WriterRuns("hdr", HeaderCalls(totalFrames, id3_buffer)) :
         /\ wrFailed + run.failed <= MaxWriteFail
         /\ out' = out \o run.segs
         /\ wrFailed' = wrFailed + run.failed
    /\ pc' = "render"
    /\ UNCHANGED << exitStatus, id6, args, pcm, spc, filter, tagVars, totalFrames,
                    fadeFrames, jobFrames, fadeVars, outOpen, iters, apiCalls >>

\* line 265: fc = totalFrames < 4096 ? totalFrames : 4096
ChunkSize(frames) ==
    IF ULt(frames, U(ChunkFrames)) THEN UInt(frames) ELSE ChunkFrames

\* what write_frames' fwrite of fc items of 4 bytes may deliver: all of them
\* or, failing, none or all but one
FrameWrites(fc) ==
    { [items |-> fc, failed |-> 0] }
    \cup { [items |-> k, failed |-> 1] : k \in { 0, fc - 1 } }

\* lines 264-272: one iteration of the render loop.  spc_play and
\* spc_filter_run fill buf, fade_frames scales it in place, pack_frames and
\* write_frames put it out (the result of write_frames is not looked at).
RenderChunk ==
    /\ pc = "render"
    /\ totalFrames # UZero
    /\ iters < MaxIters
    /\ \E fc \in { ChunkSize(totalFrames) } :
         /\ \E r \in { fade_frames(PcmConst(fc, pcm), UTrunc32(totalFrames),
                                   UTrunc32(fadeFrames), fc) } :
              /\ buf' \in AfterFade(r, PcmConst(fc, pcm))
              /\ fadeCall' = [framesRem |-> UTrunc32(totalFrames),
                              framesFade |-> UTrunc32(fadeFrames),
                              frameCount |-> fc, before |-> << >>,
                              divs |-> r.divs, divZero |-> r.divZero]
         /\ \E w \in FrameWrites(fc) :
              /\ wrFailed + w.failed <= MaxWriteFail
              /\ out' = IF w.items > 0 THEN Append(out, PcmSeg(4 * w.items)) ELSE out
              /\ wrFailed' = wrFailed + w.failed
         /\ totalFrames' = USub64(totalFrames, fc)
    /\ iters' = iters + 1
    /\ UNCHANGED << pc, exitStatus, id6, args, pcm, spc, filter, tagVars, fadeFrames,
                    jobFrames, outOpen, apiCalls >>

\* lines 273-274: the loop is left; write_wav_footer (result not looked at)
\* and fclose
WriteFooter ==
    /\ pc = "render"
    /\ totalFrames = UZero
    /\ \E run \in WriterRuns("ftr", FooterCalls(id3_buffer)) :
         /\ wrFailed + run.failed <= MaxWriteFail
         /\ out' = out \o run.segs
         /\ wrFailed' = wrFailed + run.failed
    /\ outOpen' = FALSE
    /\ pc' = "finish"
    /\ UNCHANGED << exitStatus, id6, args, pcm, spc, filter, tagVars, totalFrames,
                    fadeFrames, jobFrames, fadeVars, iters, apiCalls >>

\* lines 276-282
Finish ==
    /\ pc = "finish"
    /\ spc' = "deleted"
    /\ filter' = "deleted"
    /\ Return(0)
    /\ UNCHANGED << id6, args, pcm, tagVars, totalFrames, fadeFrames, jobFrames,
                    fadeVars, out, outOpen, wrFailed, iters, apiCalls >>

Next ==
    \/ Create
    \/ LoadFails
    \/ LoadAndCount
    \/ TagAllocFails
    \/ TagAlloc
    \/ AddSong
    \/ AddGame
    \/ AddDumper
    \/ AddComment
    \/ AddArtist
    \/ AddPublisher
    \/ AddYear
    \/ FopenFails
    \/ Fopen
    \/ WriteHeader
    \/ RenderChunk
    \/ WriteFooter
    \/ Finish

Spec == MainInit /\ [][Next]_vars

-----------------------------------------------------------------------------
(* Properties of main(), checked under Spec *)

RECURSIVE SumBytes(_, _)
SumBytes(segs, what) ==
    IF segs = << >> THEN 0
    ELSE (IF Head(segs).what = what THEN Head(segs).n ELSE 0) + SumBytes(Tail(segs), what)

RECURSIVE CatBytes(_, _)
CatBytes(segs, what) ==
    IF segs = << >> THEN << >>
    ELSE (IF Head(segs).what = what THEN Head(segs).bytes ELSE << >>)
         \o CatBytes(Tail(segs), what)

Rank(what) == CASE what = "hdr" -> 1 [] what = "pcm" -> 2 [] what = "ftr" -> 3

\* a + n for a uint64_t a and a small n
UAdd64(a, n) == [hi |-> a.hi + (a.lo + n) \div W16, lo |-> (a.lo + n) % W16]

\* main has returned 0 and no fwrite failed
CleanRun == pc = "done" /\ exitStatus = 0 /\ wrFailed = 0

\* C3: when every write succeeds (N the initial frame count, L the final tag
\* length, sizes below 2^31) the file is the 44-byte header, then N*4 bytes of
\* audio, then a footer of 8 + L bytes if L > 10 and nothing if L = 10; the
\* header's data size is N*4 and its RIFF size N*4 + 36 + (L > 10 ? L + 8 : 0),
\* the bytes written minus 8 (N = 1000 without a tag: 4000 and 4036).
C3_OutputLayout ==
    (CleanRun /\ jobFrames.hi < 8192) =>
        LET N == UInt(jobFrames)
            L == id3_buffer.len
            hdr == CatBytes(out, "hdr")
            tail == IF L > 10 THEN 8 + L ELSE 0
        IN  /\ \A k \in 1..(Len(out) - 1) : Rank(out[k].what) <= Rank(out[k + 1].what)
            /\ Len(hdr) = 44 /\ SumBytes(out, "hdr") = 44
            /\ SumBytes(out, "pcm") = N * 4
            /\ SumBytes(out, "ftr") = tail
            /\ L = 10 => \A k \in 1..Len(out) : out[k].what # "ftr"
            /\ Le32Decode(SubSeq(hdr, 41, 44)) = U(N * 4)
            /\ Le32Decode(SubSeq(hdr, 5, 8)) = U(N * 4 + 36 + tail)
            /\ UInt(Le32Decode(SubSeq(hdr, 5, 8))) =
                  SumBytes(out, "hdr") + SumBytes(out, "pcm") + SumBytes(out, "ftr") - 8
            /\ (N = 1000 /\ L = 10) =>
                  /\ Le32Decode(SubSeq(hdr, 41, 44)) = U(4000)
                  /\ Le32Decode(SubSeq(hdr, 5, 8)) = U(4036)

\* a clean run of more than one chunk with a tag in the footer
C3_Witness ==
    /\ CleanRun
    /\ iters >= 2
    /\ id3_buffer.len > 10
    /\ SumBytes(out, "ftr") = 8 + id3_buffer.len

\* the position in the stream of frame k (from 1) of the chunk in buf
StreamIndex(k) ==
    UInt(jobFrames) - (UInt(totalFrames) + fadeCall.frameCount) + (k - 1)

\* C4: for a stream of N frames and a fade window of F frames, 1 <= F <= N,
\* the frames before the last F frames come out unscaled and the last frame of
\* the stream comes out with multiplier 0, its samples exactly 0 (N = 10,
\* F = 5, pairs (100, -100): frames 0..4 are (100, -100), frame 9 is (0, 0)).
C4_FadeReachesZero ==
    (/\ pc = "render" /\ iters > 0
     /\ jobFrames.hi = 0 /\ fadeFrames.hi = 0
     /\ 1 <= UInt(fadeFrames) /\ UInt(fadeFrames) <= UInt(jobFrames)) =>
        \A k \in 1..Len(buf) :
            /\ StreamIndex(k) < UInt(jobFrames) - UInt(fadeFrames) => buf[k] = pcm
            /\ StreamIndex(k) = UInt(jobFrames) - 1 => buf[k] = << 0, 0 >>

\* C5: a failed write (header, chunk or footer) stops the conversion at that
\* point and the process exits with status 1: once an fwrite has failed, main
\* has returned 1.
C5_WriteFailureFatal ==
    wrFailed > 0 => (pc = "done" /\ exitStatus = 1)

\* C6: the TXXX frame main appends for a non-empty dumper field has exactly
\* the dumper text as its data: its payload is 1 + 10 + 1 + (dumper length, up
\* to 256) + 1 bytes long, whatever the other fields hold.
C6_DumperFrame ==
    (pc \notin {"tag_raw", "tag", "fade"} /\ id3Last.op = "private" /\ id3Last.ret = 0) =>
        LET off == id3Last.len
            P == 1 + 10 + 1 + Strnlen(id6.dumper) + 1
        IN  /\ FrameSize(id3_buffer.x, off) = P
            /\ id3_buffer.len = off + 10 + P
            /\ SubSeq(id3_buffer.x, off + 23, off + 22 + Strnlen(id6.dumper)) =
                  SubSeq(id6.dumper, 1, Strnlen(id6.dumper))

\* C8: once the decoder and the filter exist, every return of main, normal or
\* fatal, has released both.
C8_ReleasedOnExit ==
    (pc = "done" /\ exitStatus # 0 - 1) => (spc = "deleted" /\ filter = "deleted")

\* C9: every iteration uses c = min(4096, frames remaining), 1 <= c <= frames
\* remaining, and calls fade_frames with frameCount <= framesRem; the frames
\* remaining go down by c and never below zero, and the loop is left exactly
\* at zero, after ceil(N / 4096) iterations whose chunks add up to N.
C9_LoopProgress ==
    /\ (pc = "render" /\ iters > 0) =>
          LET c == fadeCall.frameCount
          IN  /\ 1 <= c /\ c <= ChunkFrames
              /\ c < ChunkFrames => totalFrames = UZero
              /\ ~ULt(fadeCall.framesRem, U(c))
              /\ UAdd64(totalFrames, (iters - 1) * ChunkFrames + c) = jobFrames
    /\ pc = "finish" =>
          /\ totalFrames = UZero
          /\ jobFrames.hi = 0
          /\ iters = (UInt(jobFrames) + ChunkFrames - 1) \div ChunkFrames

=============================================================================
